---- MODULE Spec2Model ----
(***************************************************************************)
(* Thermal Hypernova: the GameEngine of src/src/game/GameEngine.ts and its *)
(* host (src/src/App.tsx, the browser's frame scheduler and input events). *)
(*                                                                         *)
(* Units.  Time is counted in ticks of 1/TicksPerSecond second, so that    *)
(* `dt' (seconds in the source) is dt ticks here and 2 * dt energy points  *)
(* per second is a whole number.  Lengths are whole pixels, velocities     *)
(* whole pixels per tick, a Math.random() draw r is written in tenths      *)
(* (r = 5 is 0.5), a particle's life in thousandths.                       *)
(***************************************************************************)
EXTENDS Integers, Sequences, FiniteSets

VARIABLES
    state,        \* GameEngine.state
    stats,        \* GameEngine.stats
    player,       \* GameEngine.player (Null or its position)
    entities,     \* GameEngine.entities
    particles,    \* GameEngine.particles
    sinceLastTime, \* performance.now() - GameEngine.lastTime: the code reads
                  \* the clock and lastTime only through this difference
    spawnTimer,   \* GameEngine.spawnTimer
    width,        \* GameEngine.width
    height,       \* GameEngine.height
    animationId,  \* GameEngine.animationId
    isMobile,     \* GameEngine.isMobile
    listening,    \* the six window listeners are registered
    pending,      \* handles of the frame callbacks scheduled, in scheduling order
    running,      \* callbacks of the display frame in progress, still to run
    reported,     \* history: scores passed to onGameOver since the last start()
    ranAfterDestroy, \* history: update or draw executed after destroy() returned
    lastOp        \* history: the operation that produced this state

vars == <<state, stats, player, entities, particles, sinceLastTime, spawnTimer,
          width, height, animationId, isMobile, listening, pending, running,
          reported, ranAfterDestroy, lastOp>>

---------------------------------------------------------------------------
(* Bounds of the exploration *)

\* ticks of simulated time for which a run is followed
MaxTime == 4
\* frame callbacks scheduled at a time beyond which start() is not called again
MaxArmed == 2
\* length of the entity list beyond which no frame that spawns is followed
MaxEntities == 2
\* ticks between two display frames while the page is shown
MaxFrameGap == 1
\* ticks between two display frames when the page was hidden in between
LongGap == 400
\* different particle ages in the particle list
MaxParticleAges == 1

(* Units *)
TicksPerSecond == 2

(* Program constants *)
PlayerRadius == 15
OrbRadius == 5
InitialEnergy == 200
HypernovaCost == 30
BlastRadius == 400
KillBonus == 50
OrbScore == 10
OrbEnergy == 10
LevelStep == 500
CleanupMargin == 100
SpawnMargin == 50
EnergyDecayRate == 2
DoubleTapWindow == 300
NovaParticles == 50
KillParticles == 10
OrbParticles == 5

---------------------------------------------------------------------------
(* Arithmetic helpers *)

Min(a, b) == IF a < b THEN a ELSE b

Max(a, b) == IF a > b THEN a ELSE b

\* Math.ceil(a / b) for a >= 0, b > 0
CeilDiv(a, b) == (a + b - 1) \div b

\* the whole part of the square root
ISqrt(n) == CHOOSE r \in 0..2000 : r * r <= n /\ (r + 1) * (r + 1) > n

\* the whole part of a * b / c for a, b >= 0 and c > 0, with b taken in two
\* parts so that no product leaves the 32-bit range
MulDiv(a, b, c) ==
    LET hi == a * (b \div 256)
        lo == a * (b % 256)
    IN  (hi \div c) * 256 + ((hi % c) * 256 + lo) \div c

\* Math.hypot(ax - bx, ay - by) < r, for whole coordinates
Within(ax, ay, bx, by, r) ==
    (ax - bx) * (ax - bx) + (ay - by) * (ay - by) < r * r

---------------------------------------------------------------------------
(* Entities.  Colours only reach the canvas and are left out.               *)

Null == [null |-> TRUE]

\* new Player(x, y): radius 15, angle 0.  The angle is kept in units of
\* 1/TicksPerSecond radian, so that angle += 5 * dt stays whole.
NewPlayer(x, y) == [x |-> x, y |-> y, radius |-> PlayerRadius, angle |-> 0]

\* Entity.update(dt): explicit Euler step
EntityUpdate(e, dt) == [e EXCEPT !.x = e.x + e.vx * dt, !.y = e.y + e.vy * dt]

\* Math.random() * n for a draw r in tenths
Rand(r, n) == (r * n) \div 10

\* Enemy speed in pixels per tick: (Math.random() * 100 + 50) * 1.2 px/s
EnemySpeed(r) == ((Rand(r, 100) + 50) * 12) \div (10 * TicksPerSecond)

\* the whole part of |speed * c| / Math.hypot(dx, dy) for c one of dx, dy: the
\* whole part of the square root of speed^2 * c^2 / (dx^2 + dy^2)
AimPart(c, dx, dy, speed) ==
    ISqrt(MulDiv(speed * speed, c * c, dx * dx + dy * dy))

\* speed * cos(atan2(dy, dx)) and speed * sin(atan2(dy, dx)), rounded toward
\* zero to whole pixels per tick; atan2(0, 0) = 0 aims along +x.
AimX(dx, dy, speed) ==
    IF dx = 0 /\ dy = 0 THEN speed
    ELSE IF dx < 0 THEN 0 - AimPart(dx, dx, dy, speed) ELSE AimPart(dx, dx, dy, speed)

AimY(dx, dy, speed) ==
    IF dx = 0 /\ dy = 0 THEN 0
    ELSE IF dy < 0 THEN 0 - AimPart(dy, dx, dy, speed) ELSE AimPart(dy, dx, dy, speed)

\* new Enemy(w, h, player).  d holds the Math.random() draws in call order:
\* radius, side (< 0.5: left/right band), then edge and pos, then speed.
NewEnemy(w, h, pl, d) ==
    LET ex == IF d.side < 5 THEN (IF d.edge < 5 THEN 0 - SpawnMargin ELSE w + SpawnMargin)
                            ELSE Rand(d.pos, w)
        ey == IF d.side < 5 THEN Rand(d.pos, h)
                            ELSE (IF d.edge < 5 THEN 0 - SpawnMargin ELSE h + SpawnMargin)
        sp == EnemySpeed(d.speed)
    IN  [kind |-> "Enemy", x |-> ex, y |-> ey, radius |-> Rand(d.radius, 10) + 10,
         vx |-> AimX(pl.x - ex, pl.y - ey, sp), vy |-> AimY(pl.x - ex, pl.y - ey, sp),
         markedForDeletion |-> FALSE]

\* new Orb(w, h): a stationary pickup at a random point of the viewport
NewOrb(w, h, d) ==
    [kind |-> "Orb", x |-> Rand(d.ox, w), y |-> Rand(d.oy, h), radius |-> OrbRadius,
     vx |-> 0, vy |-> 0, markedForDeletion |-> FALSE]

\* new Particle(x, y, color, speed, size): life 1.0 and a decay of
\* Math.random() * 0.02 + 0.01, in thousandths.  Where a particle is and how
\* fast it flies only reaches the canvas and is left out, like its colour.
NewParticle(d) ==
    [life |-> 1000, decay |-> Rand(d.decay, 20) + 10, markedForDeletion |-> FALSE]

\* a Particle.update that lets a burnt-out particle live on
ParticleUpdateUnmarked(p, dt) == [p EXCEPT !.life = p.life - p.decay]

\* Particle.update(dt)
ParticleUpdate(p, dt) ==
    LET q == [p EXCEPT !.life = p.life - p.decay]
    IN  IF q.life <= 0 THEN [q EXCEPT !.markedForDeletion = TRUE] ELSE q

\* The Math.random() draws that are enumerated (tenths).  kind < 0.7 makes
\* an Enemy, otherwise an Orb.  All particles made by one handler call share
\* their draws.
NoDraw ==
    [kind |-> 0, radius |-> 0, side |-> 0, edge |-> 0, pos |-> 0, speed |-> 0,
     ox |-> 0, oy |-> 0]

EnemyDraws ==
    {[NoDraw EXCEPT !.radius = 9, !.edge = 0, !.pos = 5]}

OrbDraws == {[NoDraw EXCEPT !.kind = 9, !.ox = 1, !.oy = 5]}

SpawnDraws == EnemyDraws \cup OrbDraws

ParticleDraws == [decay : {5}]

\* pointer and touch coordinates (clientX, clientY)
PointerPositions == {<<200, 300>>, <<40, 300>>}

\* the hosts explored: a desktop browser and a touch device ('ontouchstart' in
\* window), each with its window.innerWidth and window.innerHeight
Environments ==
    {[isMobile |-> FALSE, innerWidth |-> 800, innerHeight |-> 600],
     [isMobile |-> TRUE, innerWidth |-> 400, innerHeight |-> 600]}

\* the sizes a window of these hosts takes when it is resized or turned
WindowSizes == {<<env.innerWidth, env.innerHeight>> : env \in Environments}

\* Date.now() - lastTapTime at a touchstart, in milliseconds
TapGaps == {0, 100, 300}

---------------------------------------------------------------------------
(* The engine's operations as functions of the engine's fields.  An engine *)
(* value g is the record of the fields an operation reads and writes.      *)

\* createExplosion(x, y, color, count)
CreateExplosion(x, y, count, mobile, d) ==
    [i \in 1..(IF mobile THEN CeilDiv(count, 2) ELSE count) |-> NewParticle(d)]

\* a guard that lets a Hypernova through on any energy left
CanTriggerOnAnyEnergy(energy) == energy > 0

\* the guard of triggerHypernova
CanTrigger(energy) == energy >= HypernovaCost

\* a Hypernova that takes the bonus off the score
AwardKillAsPenalty(score) == score - KillBonus

\* the score after one pursuer is cleared by a Hypernova
AwardKill(score) == score + KillBonus

\* triggerHypernova, the forEach over the entities from index i on
RECURSIVE ClearEnemies(_, _, _)
ClearEnemies(g, i, d) ==
    IF i > Len(g.entities) THEN g
    ELSE LET e == g.entities[i]
         IN  IF e.kind = "Enemy" /\ Within(e.x, e.y, g.player.x, g.player.y, BlastRadius)
             THEN ClearEnemies(
                    [g EXCEPT !.entities[i].markedForDeletion = TRUE,
                              !.particles = @ \o CreateExplosion(e.x, e.y, KillParticles,
                                                                 g.isMobile, d),
                              !.stats.score = AwardKill(@)],
                    i + 1, d)
             ELSE ClearEnemies(g, i + 1, d)

\* triggerHypernova()
TriggerHypernova(g, d) ==
    IF CanTrigger(g.stats.energy)
    THEN LET burst == [i \in 1..(IF g.isMobile THEN NovaParticles \div 2 ELSE NovaParticles) |->
                         NewParticle(d)]
         IN  ClearEnemies([g EXCEPT !.stats.energy = @ - HypernovaCost,
                                    !.particles = @ \o burst], 1, d)
    ELSE g

\* a spawn test that leaves the level out: spawnTimer > 1.0 seconds
SpawnDueWithoutLevel(timer, level) == timer * 100 > 100 * TicksPerSecond

\* the spawn test of update: spawnTimer > 1.0 / (1 + level * 0.24) seconds
SpawnDue(timer, level) == timer * (100 + level * 24) > 100 * TicksPerSecond

\* a pickup gain that is not capped at maxEnergy
GainEnergyUncapped(energy, maxEnergy) == energy + OrbEnergy

\* energy after a pickup: Math.min(energy + 10, maxEnergy)
GainEnergy(energy, maxEnergy) == Min(energy + OrbEnergy, maxEnergy)

\* energy after the decay of one update: Math.max(0, energy - 2 * dt)
DecayEnergy(energy, dt) == Max(0, energy - (EnergyDecayRate * dt) \div TicksPerSecond)

\* 1 + Math.floor(score / 500)
LevelOf(score) == 1 + score \div LevelStep

\* a cleanup filter that looks at the position only
KeepEntityInBounds(e, w, h) ==
    /\ e.x > 0 - CleanupMargin /\ e.x < w + CleanupMargin
    /\ e.y > 0 - CleanupMargin /\ e.y < h + CleanupMargin

\* the cleanup filter of the entity list
KeepEntity(e, w, h) ==
    /\ ~e.markedForDeletion
    /\ e.x > 0 - CleanupMargin /\ e.x < w + CleanupMargin
    /\ e.y > 0 - CleanupMargin /\ e.y < h + CleanupMargin

\* the player is hit by e: dist < e.radius + player.radius
Collides(e, pl) == Within(e.x, e.y, pl.x, pl.y, e.radius + pl.radius)

\* update, the forEach over the entities from index i on
RECURSIVE UpdateEntities(_, _, _, _)
UpdateEntities(g, i, dt, d) ==
    IF i > Len(g.entities) THEN g
    ELSE LET e == EntityUpdate(g.entities[i], dt)
             m == [g EXCEPT !.entities[i] = e]
         IN  IF ~Collides(e, g.player) THEN UpdateEntities(m, i + 1, dt, d)
             ELSE IF e.kind = "Enemy"
             THEN UpdateEntities(
                    [m EXCEPT !.state = "GAME_OVER",
                              !.reported = Append(@, m.stats.score)],
                    i + 1, dt, d)
             ELSE UpdateEntities(
                    [m EXCEPT !.entities[i].markedForDeletion = TRUE,
                              !.stats.score = @ + OrbScore,
                              !.stats.energy = GainEnergy(@, m.stats.maxEnergy),
                              !.particles = @ \o CreateExplosion(e.x, e.y, OrbParticles,
                                                                 m.isMobile, d)],
                    i + 1, dt, d)

\* an end of update that passes the stats on before it recomputes the level
LevelUpAfterEmit(g) ==
    [g EXCEPT !.emitted = Append(@, g.stats),
              !.stats.level = LevelOf(g.stats.score)]

\* the end of update: the level is recomputed from the score, then a copy of
\* the stats goes to onStatsUpdate
LevelUp(g) ==
    LET h == [g EXCEPT !.stats.level = LevelOf(g.stats.score)]
    IN  [h EXCEPT !.emitted = Append(@, h.stats)]

\* update(dt), s the draws of a spawn and d the draws of the particles
Update(g, dt, s, d) ==
    IF g.player = Null THEN g
    ELSE LET timer == g.spawnTimer + dt
             due == SpawnDue(timer, g.stats.level)
             born == IF ~due THEN <<>>
                     ELSE IF s.kind < 7 THEN <<NewEnemy(g.width, g.height, g.player, s)>>
                     ELSE <<NewOrb(g.width, g.height, s)>>
             g1 == [g EXCEPT !.player.angle = @ + 5 * dt,
                             !.spawnTimer = IF due THEN 0 ELSE timer,
                             !.entities = @ \o born]
             g2 == UpdateEntities(g1, 1, dt, d)
             moved == [i \in 1..Len(g2.particles) |-> ParticleUpdate(g2.particles[i], dt)]
             g3 == [g2 EXCEPT
                      !.entities = SelectSeq(@, LAMBDA e : KeepEntity(e, g.width, g.height)),
                      !.particles = SelectSeq(moved, LAMBDA p : ~p.markedForDeletion),
                      !.stats.energy = DecayEnergy(@, dt)]
         IN  [LevelUp(g3) EXCEPT !.born = born]

---------------------------------------------------------------------------
(* The state machine *)

\* the stats literal of the field initialiser and of start()
NewStats == [score |-> 0, energy |-> InitialEnergy, maxEnergy |-> InitialEnergy, level |-> 1]

\* the engine value of the current state; emitted and born collect what one
\* operation passes to onStatsUpdate and spawns
Engine ==
    [state |-> state, stats |-> stats, player |-> player, entities |-> entities,
     particles |-> particles, spawnTimer |-> spawnTimer, width |-> width,
     height |-> height, isMobile |-> isMobile, reported |-> reported,
     emitted |-> <<>>, born |-> <<>>]

\* the particle list of g holds particles of few enough different ages for
\* the exploration to follow them
Followable(g) ==
    Cardinality({g.particles[i].life : i \in 1..Len(g.particles)}) <= MaxParticleAges

Install(g) ==
    /\ Followable(g)
    /\ state' = g.state
    /\ stats' = g.stats
    /\ player' = g.player
    /\ entities' = g.entities
    /\ particles' = g.particles
    /\ spawnTimer' = g.spawnTimer
    /\ reported' = g.reported

\* history of one operation: its name, the dt of its update, what the update
\* spawned and passed to onStatsUpdate, whether triggerHypernova was called
\* (nova), and whether the operation got past its guard (fired)
Op(name) ==
    [op |-> name, dt |-> 0, born |-> <<>>, emitted |-> <<>>, nova |-> FALSE,
     fired |-> FALSE]

\* requestAnimationFrame hands out a handle that no callback still scheduled
\* carries; which number it is cannot be observed, so the least is taken.
\* q1 and q2 are the callbacks scheduled at the time of the call.
FreshHandle(q1, q2) ==
    CHOOSE h \in 1..(Len(q1) + Len(q2) + 1) :
        /\ \A i \in 1..Len(q1) : q1[i] # h
        /\ \A i \in 1..Len(q2) : q2[i] # h
        /\ \A k \in 1..(h - 1) :
             \/ \E i \in 1..Len(q1) : q1[i] = k
             \/ \E i \in 1..Len(q2) : q2[i] = k

\* cancelAnimationFrame(id) on a list of scheduled callbacks
Cancel(q, id) == SelectSeq(q, LAMBDA h : h # id)

\* the time simulated in the current run: update advances player.angle by
\* 5 * dt, so the angle is the run's clock
RunTime == IF player = Null THEN 0 ELSE player.angle \div 5

\* the gaps between two display frames: up to MaxFrameGap ticks while the
\* page is shown, LongGap ticks when the page was hidden in between and the
\* scheduler held the callbacks back
FrameGaps == (1..MaxFrameGap) \cup {LongGap}

\* a run is followed for MaxTime ticks, and beyond that through one frame
\* that comes after a long gap
InReach(dt) == RunTime + dt <= MaxTime \/ (dt >= LongGap /\ RunTime < MaxTime)

\* a start() that keeps the entity list of the previous run
RestartedKeepingEntities(g) ==
    [g EXCEPT !.state = "PLAYING",
              !.stats = NewStats,
              !.player = NewPlayer(g.width \div 2, g.height \div 2),
              !.particles = <<>>]

\* a start() that does not make a player
RestartedWithoutPlayer(g) ==
    [g EXCEPT !.state = "PLAYING",
              !.stats = NewStats,
              !.entities = <<>>,
              !.particles = <<>>]

\* the state start() gives the engine before it enters the loop
Restarted(g) ==
    [g EXCEPT !.state = "PLAYING",
              !.stats = NewStats,
              !.player = NewPlayer(g.width \div 2, g.height \div 2),
              !.entities = <<>>,
              !.particles = <<>>]

Init ==
    /\ state = "MENU"
    /\ stats = NewStats
    /\ player = Null
    /\ entities = <<>>
    /\ particles = <<>>
    /\ sinceLastTime = 0
    /\ spawnTimer = 0
    /\ \E env \in Environments :
         /\ width = env.innerWidth
         /\ height = env.innerHeight
         /\ isMobile = env.isMobile
    /\ animationId = 0
    /\ listening = TRUE
    /\ pending = <<>>
    /\ running = <<>>
    /\ reported = <<>>
    /\ ranAfterDestroy = FALSE
    /\ lastOp = Op("new")

\* start(): the reset, then loop(this.lastTime), which updates with dt = 0,
\* draws and schedules the next frame
Start ==
    /\ listening
    /\ running = <<>>
    /\ Len(pending) < MaxArmed
    /\ \E s \in SpawnDraws, d \in ParticleDraws :
         LET g == Update([Restarted(Engine) EXCEPT !.reported = <<>>], 0, s, d)
         IN  /\ Len(g.entities) <= MaxEntities
             /\ Install(g)
             /\ lastOp' = [Op("start") EXCEPT !.born = g.born, !.emitted = g.emitted,
                                              !.fired = TRUE]
    /\ sinceLastTime' = 0
    /\ animationId' = FreshHandle(pending, running)
    /\ pending' = Append(pending, FreshHandle(pending, running))
    /\ UNCHANGED <<width, height, isMobile, listening, running, ranAfterDestroy>>

\* a loop that only returns at once before the first start()
LoopReturnsInMenu(st) == st = "MENU"

\* the first line of loop: if (this.state !== 'PLAYING') return
LoopReturns(st) == st # "PLAYING"

\* loop(timestamp) called by the frame scheduler, dt being (timestamp -
\* lastTime) / 1000: rest are the callbacks of this display frame still to
\* run, sched those already scheduled for the next one.  With hostDestroys
\* the host calls destroy() from inside onStatsUpdate.
Loop(dt, rest, sched, hostDestroys) ==
    IF LoopReturns(state)
    THEN /\ running' = rest
         /\ pending' = sched
         /\ sinceLastTime' = dt
         /\ lastOp' = Op("loop")
         /\ UNCHANGED <<state, stats, player, entities, particles, spawnTimer,
                        animationId, listening, reported, ranAfterDestroy>>
    ELSE /\ InReach(dt)
         /\ \E s \in SpawnDraws, d \in ParticleDraws :
              LET g == Update(Engine, dt, s, d)
              IN  /\ Len(g.born) > 0 => Len(entities) < MaxEntities
                  /\ Install(g)
                  /\ lastOp' = [Op("loop") EXCEPT !.dt = dt, !.born = g.born,
                                                  !.emitted = g.emitted, !.fired = TRUE]
         /\ sinceLastTime' = 0
         /\ listening' = (listening /\ ~hostDestroys)
         /\ LET left == IF hostDestroys THEN Cancel(rest, animationId) ELSE rest
                kept == IF hostDestroys THEN Cancel(sched, animationId) ELSE sched
            IN  /\ running' = left
                /\ animationId' = FreshHandle(left, kept)
                /\ pending' = Append(kept, FreshHandle(left, kept))
         /\ ranAfterDestroy' = (ranAfterDestroy \/ ~listening \/ hostDestroys)

\* a display frame begins gap ticks after the last one: the scheduler takes
\* the scheduled callbacks and runs the first with the frame's timestamp
Frame ==
    /\ running = <<>>
    /\ pending # <<>>
    /\ \E gap \in FrameGaps, hostDestroys \in BOOLEAN :
         /\ hostDestroys => listening
         /\ Loop(sinceLastTime + gap, Tail(pending), <<>>, hostDestroys)
    /\ UNCHANGED <<width, height, isMobile>>

\* the scheduler runs the next callback of the same display frame
NextCallback ==
    /\ running # <<>>
    /\ \E hostDestroys \in BOOLEAN :
         /\ hostDestroys => listening
         /\ Loop(sinceLastTime, Tail(running), pending, hostDestroys)
    /\ UNCHANGED <<width, height, isMobile>>

\* handleMouseMove / handleTouchMove / the position part of handleTouchStart
MovePlayer(g, p) == [g EXCEPT !.player.x = p[1], !.player.y = p[2]]

\* the window dispatches an event only to listeners still registered, and
\* never in the middle of a display frame's callbacks
Dispatch == listening /\ running = <<>>

\* touch events come from a touch device only
Touch == Dispatch /\ isMobile

Untouched ==
    UNCHANGED <<sinceLastTime, width, height, animationId, isMobile, listening,
                pending, running, ranAfterDestroy>>

\* mousemove
MouseMove ==
    /\ Dispatch
    /\ \E p \in PointerPositions :
         LET on == state = "PLAYING" /\ player # Null
         IN  /\ Install(IF on THEN MovePlayer(Engine, p) ELSE Engine)
             /\ lastOp' = [Op("move") EXCEPT !.fired = on]
    /\ Untouched

\* a mousedown handler without the test of the state
MouseDownInAnyState ==
    /\ Dispatch
    /\ \E d \in ParticleDraws :
         LET g == TriggerHypernova(Engine, d)
         IN  /\ Install(g)
             /\ lastOp' = [Op("mousedown") EXCEPT !.nova = TRUE, !.fired = (g # Engine)]
    /\ Untouched

\* mousedown
MouseDown ==
    /\ Dispatch
    /\ \E d \in ParticleDraws :
         LET on == state = "PLAYING"
             g == IF on THEN TriggerHypernova(Engine, d) ELSE Engine
         IN  /\ Install(g)
             /\ lastOp' = [Op("mousedown") EXCEPT !.nova = on, !.fired = (g # Engine)]
    /\ Untouched

\* touchmove; a touchmove event always carries a touch (e.touches.length > 0)
TouchMove ==
    /\ Touch
    /\ \E p \in PointerPositions :
         LET on == state = "PLAYING" /\ player # Null
         IN  /\ Install(IF on THEN MovePlayer(Engine, p) ELSE Engine)
             /\ lastOp' = [Op("move") EXCEPT !.fired = on]
    /\ Untouched

\* touchstart; gap is Date.now() - lastTapTime in milliseconds, a value of the
\* wall clock, so lastTapTime itself is not kept; the event carries its touch
TouchStart ==
    /\ Touch
    /\ \E p \in PointerPositions, gap \in TapGaps, d \in ParticleDraws :
         LET on == state = "PLAYING"
             double == gap < DoubleTapWindow /\ gap > 0
             g1 == IF on /\ double THEN TriggerHypernova(Engine, d) ELSE Engine
             g2 == IF on /\ g1.player # Null THEN MovePlayer(g1, p) ELSE g1
         IN  /\ Install(g2)
             /\ lastOp' = [Op("touchstart") EXCEPT !.nova = (on /\ double),
                                                   !.fired = (g1 # Engine)]
    /\ Untouched

\* touchend: preventDefault only
TouchEnd ==
    /\ Touch
    /\ lastOp' = Op("touchend")
    /\ UNCHANGED <<state, stats, player, entities, particles, spawnTimer, reported>>
    /\ Untouched

\* the resize listener: resize() reads window.innerWidth and
\* window.innerHeight, the size the window has at the time of the event
Resize ==
    /\ Dispatch
    /\ \E size \in WindowSizes :
         /\ width' = size[1]
         /\ height' = size[2]
    /\ lastOp' = Op("resize")
    /\ UNCHANGED <<state, stats, player, entities, particles, sinceLastTime,
                   spawnTimer, animationId, isMobile, listening, pending, running,
                   reported, ranAfterDestroy>>

\* destroy() called by the host between frames
Destroy ==
    /\ running = <<>>
    /\ listening' = FALSE
    /\ pending' = Cancel(pending, animationId)
    /\ lastOp' = Op("destroy")
    /\ UNCHANGED <<state, stats, player, entities, particles, sinceLastTime,
                   spawnTimer, width, height, animationId, isMobile, running,
                   reported, ranAfterDestroy>>

Next ==
    \/ Start
    \/ Frame
    \/ NextCallback
    \/ MouseMove
    \/ MouseDown
    \/ TouchMove
    \/ TouchStart
    \/ TouchEnd
    \/ Resize
    \/ Destroy

Spec == Init /\ [][Next]_vars

\* The engine half a second into a run in which a Hypernova was triggered
\* right after start() and 48 frames have come since, 1/96 s apart: the
\* particles of the burst have been updated 48 times, nothing has spawned
\* yet, and the next frame is scheduled.
LateInit ==
    /\ state = "PLAYING"
    /\ stats = [NewStats EXCEPT !.energy = InitialEnergy - HypernovaCost - 1]
    /\ \E env \in Environments :
         /\ width = env.innerWidth
         /\ height = env.innerHeight
         /\ isMobile = env.isMobile
         /\ player = [NewPlayer(env.innerWidth \div 2, env.innerHeight \div 2)
                         EXCEPT !.angle = 5]
         /\ \E d \in ParticleDraws :
              particles =
                  [i \in 1..(IF env.isMobile THEN NovaParticles \div 2 ELSE NovaParticles) |->
                      [NewParticle(d) EXCEPT !.life = @ - 48 * NewParticle(d).decay]]
    /\ entities = <<>>
    /\ sinceLastTime = 0
    /\ spawnTimer = 1
    /\ animationId = 1
    /\ listening = TRUE
    /\ pending = <<1>>
    /\ running = <<>>
    /\ reported = <<>>
    /\ ranAfterDestroy = FALSE
    /\ lastOp = [Op("loop") EXCEPT !.emitted = <<stats>>, !.fired = TRUE]

LateSpec == LateInit /\ [][Next]_vars

---------------------------------------------------------------------------
(* Properties *)

\* the callbacks the frame scheduler still holds
Outstanding == Len(pending) + Len(running)

\* C1: in every run the game-over callback is invoked exactly once, at the
\* PLAYING -> GAME_OVER transition: it has been invoked once when the run is
\* over and not at all while the run is being played, also when several
\* pursuers overlap the player in one update.
C1_GameOverReportedOnce ==
    Len(reported) = (IF state = "GAME_OVER" THEN 1 ELSE 0)

\* C2: after destroy() has returned, no update and no draw executes.
C2_NothingRunsAfterDestroy == ~ranAfterDestroy

\* C3: after any sequence of start() calls one frame loop is armed: at most
\* one frame callback is outstanding at any time.
C3_OneLoopArmed == Outstanding <= 1

\* C4: whenever start() has returned, the engine is PLAYING with score 0,
\* energy = maxEnergy, level 1, no entities, no particles and a fresh player
\* at the centre of the viewport.
C4_StartResets ==
    lastOp.op = "start" =>
        /\ state = "PLAYING"
        /\ stats.score = 0
        /\ stats.energy = stats.maxEnergy
        /\ stats.level = 1
        /\ entities = <<>>
        /\ particles = <<>>
        /\ player = [x |-> width \div 2, y |-> height \div 2, radius |-> 15, angle |-> 0]

\* start() has returned from a restart after a run that ended in GAME_OVER
\* and whose last callback has run: the spawn timer still shows the earlier
\* run and the only callback outstanding is the new one
C4_RestartedAfterGameOver ==
    lastOp.op = "start" /\ spawnTimer > 0 /\ Outstanding = 1

\* C5: immediately after any start() call the spawn timer equals its initial
\* value 0.
C5_StartResetsSpawnTimer == lastOp.op = "start" => spawnTimer = 0

\* C6: 0 <= energy <= maxEnergy in every state, so after every update and
\* after every Hypernova.
C6_EnergyInRange == stats.energy >= 0 /\ stats.energy <= stats.maxEnergy

\* an update that collected a pickup at full energy and then decayed more
\* energy than there was: the gain met the upper end, the decay the lower
C6_GainAndDecayClamped ==
    /\ lastOp.op = "loop"
    /\ lastOp.dt >= LongGap
    /\ stats.score = OrbScore
    /\ stats.energy = 0

\* C7: every stats snapshot passed to onStatsUpdate has
\* level = 1 + floor(score / 500).
C7_EmittedLevel ==
    \A i \in 1..Len(lastOp.emitted) :
        lastOp.emitted[i].level = 1 + lastOp.emitted[i].score \div 500

\* an update passed on a snapshot of level 2, the score having been gained by
\* Hypernovas between two frames
C7_LevelTwoEmitted ==
    /\ lastOp.op = "loop"
    /\ Len(lastOp.emitted) = 1
    /\ lastOp.emitted[1].score >= 500
    /\ lastOp.emitted[1].level = 2

\* the pursuers of the entity list within the blast radius of the player
InBlast ==
    {i \in 1..Len(entities) :
        /\ entities[i].kind = "Enemy"
        /\ Within(entities[i].x, entities[i].y, player.x, player.y, 400)}

\* C8: a Hypernova invoked with energy >= 30 takes exactly 30 energy, marks
\* every pursuer nearer than 400 to the player, marks no other entity, and
\* adds to the score 50 times the number of pursuers this invocation
\* destroyed, i.e. those in the blast that were not marked before it.
C8_HypernovaEffect ==
    [][(lastOp'.nova /\ stats.energy >= 30) =>
         /\ stats'.energy = stats.energy - 30
         /\ Len(entities') = Len(entities)
         /\ \A i \in 1..Len(entities) :
              entities'[i].markedForDeletion =
                  (entities[i].markedForDeletion \/ i \in InBlast)
         /\ stats'.score = stats.score
                + 50 * Cardinality({i \in InBlast : ~entities[i].markedForDeletion})
      ]_vars

\* C9: a Hypernova invoked with energy < 30 leaves energy, score, the entity
\* list with its deletion flags and the particle list as they were.
C9_NoOpBelowCost ==
    [][(lastOp'.nova /\ stats.energy < 30) =>
         /\ stats' = stats
         /\ entities' = entities
         /\ particles' = particles
      ]_vars

\* a Hypernova was invoked and turned down while a pursuer not yet marked was
\* inside the blast radius
C9_TurnedDownInRange ==
    /\ lastOp.nova
    /\ ~lastOp.fired
    /\ stats.energy > 0 /\ stats.energy < 30
    /\ \E i \in InBlast : ~entities[i].markedForDeletion

\* the pickups that an update of dt ticks finds in collision with the player:
\* indices into the entity list extended by what the update spawns
PickedUp(born, dt) ==
    LET all == entities \o born
    IN  {i \in 1..Len(all) :
            /\ all[i].kind = "Orb"
            /\ Collides(EntityUpdate(all[i], dt), player)}

C11_NoSimulationAfterGameOver ==
    [][state = "GAME_OVER" =>
         /\ lastOp'.op = "loop" =>
              /\ entities' = entities
              /\ particles' = particles
              /\ stats' = stats
              /\ Outstanding' = Outstanding - 1
         /\ lastOp'.op # "start" => Outstanding' <= Outstanding
      ]_vars

\* the run is over and the loop has returned with no callback left
C11_LoopStopped ==
    /\ state = "GAME_OVER"
    /\ lastOp.op = "loop"
    /\ ~lastOp.fired
    /\ Outstanding = 0

\* C12: onStatsUpdate is invoked once per executed frame while the state is
\* PLAYING and never while it is MENU or GAME_OVER: an operation that has
\* passed a snapshot on leaves the engine PLAYING, also in the frame in which
\* a pursuer has hit the player.
C12_StatsOnlyWhilePlaying ==
    /\ Len(lastOp.emitted) <= 1
    /\ Len(lastOp.emitted) = 1 => state = "PLAYING"

\* C13: the state only goes MENU -> PLAYING, GAME_OVER -> PLAYING and
\* PLAYING -> PLAYING by start(), and PLAYING -> GAME_OVER by an update in
\* which a pursuer hit the player; the player is null exactly in MENU.
C13_StateMachine ==
    /\ [](player = Null <=> state = "MENU")
    /\ [][/\ state' # state =>
                 <<state, state'>> \in {<<"MENU", "PLAYING">>, <<"PLAYING", "GAME_OVER">>,
                                       <<"GAME_OVER", "PLAYING">>}
          /\ (state' # state /\ state' = "PLAYING") => lastOp'.op = "start"
          /\ state' = "GAME_OVER" /\ state = "PLAYING" =>
                 lastOp'.op = "loop" /\ Len(reported') > 0
          /\ lastOp'.op = "start" => state' = "PLAYING"
         ]_vars

\* an update has just taken the state from PLAYING to GAME_OVER: the player
\* is still there and the callback the loop scheduled is outstanding
C13_JustOver ==
    /\ state = "GAME_OVER"
    /\ lastOp.op = "loop"
    /\ lastOp.fired
    /\ player # Null
    /\ Outstanding = 1

\* C14: an update adds dt to the spawn timer; it spawns iff the timer then
\* exceeds 1 / (1 + level * 0.24) seconds; when it spawns the timer is 0
\* afterwards and exactly one entity was added, however large dt is; when it
\* does not, the timer keeps the sum.  The level is the one the update finds,
\* which is 1 in the update of start().
C14_Spawner ==
    [][(lastOp'.fired /\ lastOp'.op \in {"loop", "start"}) =>
         LET timer == spawnTimer + lastOp'.dt
             level == IF lastOp'.op = "start" THEN 1 ELSE stats.level
             due == timer * (100 + 24 * level) > 100 * TicksPerSecond
         IN  /\ due => spawnTimer' = 0 /\ Len(lastOp'.born) = 1
             /\ ~due => spawnTimer' = timer /\ Len(lastOp'.born) = 0
      ]_vars

\* an update after a long gap has spawned exactly one entity, a pursuer, and
\* the timer is 0
C14_OneSpawnAfterLongGap ==
    /\ lastOp.op = "loop"
    /\ lastOp.dt >= LongGap
    /\ Len(lastOp.born) = 1
    /\ lastOp.born[1].kind = "Enemy"
    /\ spawnTimer = 0

\* C15: at the end of every update the entity list holds no entity marked
\* for deletion and none at or beyond 100 px outside the viewport on an axis,
\* and the particle list holds no particle with life <= 0; between updates no
\* entity leaves or enters the list and no deletion flag is reset.
C15_CleanupPostcondition ==
    [][IF lastOp'.fired /\ lastOp'.op \in {"loop", "start"}
       THEN /\ \A i \in 1..Len(entities') :
                 /\ ~entities'[i].markedForDeletion
                 /\ entities'[i].x > 0 - 100 /\ entities'[i].x < width' + 100
                 /\ entities'[i].y > 0 - 100 /\ entities'[i].y < height' + 100
            /\ \A i \in 1..Len(particles') :
                 particles'[i].life > 0 /\ ~particles'[i].markedForDeletion
       ELSE /\ Len(entities') = Len(entities)
            /\ \A i \in 1..Len(entities) :
                 entities[i].markedForDeletion => entities'[i].markedForDeletion
      ]_vars

\* an update has removed the burnt-out particles of a Hypernova: the energy
\* shows that one Hypernova was triggered in this run, three ticks old and
\* without any score, and no particle is left
C15_BurstBurntOut ==
    /\ lastOp.op = "loop"
    /\ lastOp.fired
    /\ RunTime = 3
    /\ stats.score = 0
    /\ stats.energy = InitialEnergy - HypernovaCost - 3
    /\ particles = <<>>

\* C16: the score never goes down within a run: every operation but start()
\* leaves it as it is or raises it, and start() sets it to 0.
C16_ScoreMonotone ==
    [][IF lastOp'.op = "start" THEN stats'.score = 0
                               ELSE stats'.score >= stats.score]_vars

\* a run still being played has scored a Hypernova bonus and then a pickup
C16_BonusThenPickup ==
    /\ state = "PLAYING"
    /\ lastOp.op = "loop"
    /\ Len(lastOp.born) = 1
    /\ lastOp.born[1].kind = "Orb"
    /\ stats.score = 50 + 10

\* C17: a pursuer already marked for deletion is not rewarded again: a
\* Hypernova that finds every pursuer in its blast radius marked already
\* leaves the score as it is.
C17_BonusOnce ==
    [][(lastOp'.nova /\ \A i \in InBlast : entities[i].markedForDeletion) =>
         stats'.score = stats.score
      ]_vars

\* C18: a pursuer marked for deletion does not end the run: an update takes
\* the state from PLAYING to GAME_OVER only if a pursuer that is not marked
\* overlaps the player at its collision check.
C18_MarkedPursuerHarmless ==
    [][(state = "PLAYING" /\ state' = "GAME_OVER") =>
         LET all == entities \o lastOp'.born
         IN  \E i \in 1..Len(all) :
                 /\ all[i].kind = "Enemy"
                 /\ ~all[i].markedForDeletion
                 /\ Collides(EntityUpdate(all[i], lastOp'.dt), player)
      ]_vars

\* C19: the score passed to onGameOver is the final score of the run: while
\* the state is GAME_OVER every score reported equals stats.score.
C19_ReportedScoreIsFinal ==
    state = "GAME_OVER" => \A i \in 1..Len(reported) : reported[i] = stats.score

\* C20: an input event that finds the state not PLAYING leaves stats, the
\* entities, the particles and the player as they are; a move event that
\* finds it PLAYING changes the player's position only; and an update reads
\* the position the last event wrote: it leaves the position as it is and
\* ends the run iff a pursuer overlaps the player at that position.
C20_InputEffect ==
    [][/\ (lastOp'.op \in {"move", "mousedown", "touchstart", "touchend"}
             /\ state # "PLAYING") =>
            /\ stats' = stats /\ entities' = entities /\ particles' = particles
            /\ player' = player /\ state' = state
       /\ (lastOp'.op = "move" /\ state = "PLAYING") =>
            /\ stats' = stats /\ entities' = entities /\ particles' = particles
            /\ state' = state
            /\ player'.radius = player.radius /\ player'.angle = player.angle
            /\ lastOp'.fired
       /\ (lastOp'.op = "loop" /\ lastOp'.fired) =>
            LET all == entities \o lastOp'.born
            IN  /\ player'.x = player.x /\ player'.y = player.y
                /\ state' = "GAME_OVER" <=>
                     \E i \in 1..Len(all) :
                         /\ all[i].kind = "Enemy"
                         /\ Collides(EntityUpdate(all[i], lastOp'.dt), player)
      ]_vars

\* a press or a tap found the run over and did nothing, with energy enough
\* for a Hypernova; the run had ended where a move had put the player
C20_PressAfterGameOver ==
    /\ state = "GAME_OVER"
    /\ lastOp.op \in {"mousedown", "touchstart"}
    /\ ~lastOp.nova
    /\ ~lastOp.fired
    /\ stats.energy >= 30
    /\ player.x = 40

====
